---- MODULE Spec2Model ----
(***************************************************************************)
(* Duplicate and burst-sequence detection of the unfuzz backend:           *)
(*   backend/app/services/duplicate_detector.py  (class DuplicateDetector) *)
(*   backend/app/api/analysis.py                 (detect_duplicates)       *)
(*                                                                         *)
(* Python values are represented as follows.                               *)
(*   - a table is a function from the ids of its rows to the rows;          *)
(*   - a hash is a Python str: a sequence of one-character strings; the    *)
(*     value None in a hash field is the one-element sequence NoneHash     *)
(*     and a dict without the key has AbsentHash there (no hex string has  *)
(*     these shapes);                                                      *)
(*   - a score or a capture time is an integer; None is NoneVal and a      *)
(*     missing dict key is AbsentKey;                                      *)
(*   - a filename is a sequence of character codes, ordered as Python      *)
(*     orders str (lexicographically);                                     *)
(*   - list indices are 1-based here (Python's index i is i + 1);          *)
(*   - a uuid is a natural number, 0 standing for SQL NULL.                *)
(***************************************************************************)
EXTENDS Integers, Sequences, FiniteSets, TLC

VARIABLES
    images,                 \* the "images" table: id -> row
    uuid_next,              \* the next value uuid.uuid4() hands out
    image_data,             \* the list of dicts handed to DuplicateDetector
    similarity_threshold,   \* DuplicateDetector.similarity_threshold
    ret,                    \* the last call: its name, arguments and outcome
    passes,                 \* the detect_duplicates requests in progress
    jobs,                   \* the batch enhancement jobs in Redis: job id -> job
    enhanced_images,        \* the "enhanced_images" table (the library)
    client                  \* the batch request being served, or its response

vars == <<images, uuid_next, image_data, similarity_threshold, ret, passes,
          jobs, enhanced_images, client>>

(***************************************************************************)
(* Bounds of the model.                                                    *)
(***************************************************************************)
MaxImages == 3
MaxUuid == 2
MaxPasses == 2

(***************************************************************************)
(* Program constants.                                                      *)
(***************************************************************************)
ErrorDistance == 999
BurstVisualThreshold == 30
DefaultTimeThreshold == 5
DefaultSimilarityThreshold == 10

NoneVal == 0 - 1
AbsentKey == 0 - 2
NoneHash == <<"None">>
AbsentHash == <<"KeyError">>

(***************************************************************************)
(* Small sequence helpers.                                                 *)
(***************************************************************************)
Rep(c, n) == [i \in 1..n |-> c]

Range(s) == {s[i] : i \in 1..Len(s)}

(***************************************************************************)
(* Fingerprint codec: imagehash.hex_to_hash and ImageHash.__sub__ as used  *)
(* by calculate_similarity.  str(ImageHash) is a lower-case hex string of  *)
(* hash_size * hash_size / 4 digits (16 digits for the default 8 x 8).     *)
(***************************************************************************)
HexChars == <<"0", "1", "2", "3", "4", "5", "6", "7",
              "8", "9", "a", "b", "c", "d", "e", "f">>

IsHexChar(c) == \E k \in 1..16 : HexChars[k] = c

HexVal(c) == (CHOOSE k \in 1..16 : HexChars[k] = c) - 1

\* int(hexstr, 16) raises ValueError on an empty string or a non-hex
\* character; len(None) raises TypeError.
IsHexString(h) == Len(h) > 0 /\ \A i \in 1..Len(h) : IsHexChar(h[i])

\* The four bits of one hex digit, most significant first.
NibbleBit(v, k) ==
    CASE k = 1 -> (v \div 8) % 2
      [] k = 2 -> (v \div 4) % 2
      [] k = 3 -> (v \div 2) % 2
      [] OTHER -> v % 2

\* Mutant: the last digit is left out.
HexToHash_DropLastDigit(h) ==
    [b \in 1..(4 * Len(h)) |->
        IF b > 4 * (Len(h) - 1) THEN 0
        ELSE NibbleBit(HexVal(h[((b - 1) \div 4) + 1]), ((b - 1) % 4) + 1)]

\* hex_to_hash: the flattened bit array of the hash, 4 bits per digit.
HexToHash(h) ==
    [b \in 1..(4 * Len(h)) |-> NibbleBit(HexVal(h[((b - 1) \div 4) + 1]), ((b - 1) % 4) + 1)]

\* Mutant: only the bits set in the first code and clear in the second count.
HammingDistance_OneSided(b1, b2) == Cardinality({i \in 1..Len(b1) : b1[i] = 1 /\ b2[i] = 0})

\* ImageHash.__sub__: numpy.count_nonzero(self.hash.flatten() != other.hash.flatten())
HammingDistance(b1, b2) == Cardinality({i \in 1..Len(b1) : b1[i] # b2[i]})

\* What the try block of calculate_similarity raises, "" when it returns.
\* Both branches of the hash_type test run the same two conversions.
SimilarityRaises(hash1, hash2) ==
    IF ~IsHexString(hash1) \/ ~IsHexString(hash2) THEN "ValueError"
    ELSE IF Len(HexToHash(hash1)) # Len(HexToHash(hash2)) THEN "TypeError"
    ELSE ""

\* Mutant: codes of different length are compared on their common prefix.
calculate_similarity_Truncating(hash1, hash2, hash_type) ==
    IF ~IsHexString(hash1) \/ ~IsHexString(hash2) THEN ErrorDistance
    ELSE LET n == IF Len(hash1) < Len(hash2) THEN Len(hash1) ELSE Len(hash2)
         IN  HammingDistance(HexToHash(SubSeq(hash1, 1, n)), HexToHash(SubSeq(hash2, 1, n)))

\* DuplicateDetector.calculate_similarity: the except clause turns every
\* exception into the number 999.
calculate_similarity(hash1, hash2, hash_type) ==
    IF SimilarityRaises(hash1, hash2) # "" THEN ErrorDistance
    ELSE HammingDistance(HexToHash(hash1), HexToHash(hash2))

(***************************************************************************)
(* DuplicateDetector.are_duplicates.  An image file is given by the        *)
(* hashes compute_hashes returns for it: two 16-digit codes; anything      *)
(* else stands for a file compute_hashes raises on.                        *)
(***************************************************************************)
ComputeHashesRaises(img) ==
    ~(IsHexString(img.dhash) /\ Len(img.dhash) = 16
        /\ IsHexString(img.phash) /\ Len(img.phash) = 16)

\* The except clause returns False.
are_duplicates(img1, img2, threshold, use_both_hashes) ==
    IF ComputeHashesRaises(img1) \/ ComputeHashesRaises(img2) THEN FALSE
    ELSE LET dhash_distance == calculate_similarity(img1.dhash, img2.dhash, "dhash")
             phash_distance == calculate_similarity(img1.phash, img2.phash, "phash")
         IN  IF use_both_hashes
             THEN dhash_distance <= threshold /\ phash_distance <= threshold
             ELSE dhash_distance <= threshold \/ phash_distance <= threshold

(***************************************************************************)
(* DuplicateDetector.find_duplicate_groups                                 *)
(***************************************************************************)
\* Mutant: the comparison inverted.
SimilarByBothHashes_Inverted(dhash_dist, phash_dist, threshold) ==
    dhash_dist > threshold /\ phash_dist > threshold

\* Mutant: one hash within the threshold is enough.
SimilarByBothHashes_Either(dhash_dist, phash_dist, threshold) ==
    dhash_dist <= threshold \/ phash_dist <= threshold

\* "If similar by both hashes, add to group" (the test of the inner loop).
SimilarByBothHashes(dhash_dist, phash_dist, threshold) ==
    dhash_dist <= threshold /\ phash_dist <= threshold

\* Mutant: every group is kept.
KeepGroup_NonEmpty(group) == Len(group) > 0

\* "Only add groups with more than 1 image".
KeepGroup(group) == Len(group) > 1

\* Mutant: a record is compared with the last member of the group, not
\* with the anchor.
RECURSIVE ScanLater_Chained(_, _, _, _, _, _)
ScanLater_Chained(data, threshold, i, j, group, processed) ==
    IF j > Len(data) THEN [group |-> group, processed |-> processed]
    ELSE IF j \in processed THEN ScanLater_Chained(data, threshold, i, j + 1, group, processed)
    ELSE LET last == group[Len(group)]
             dhash_dist == calculate_similarity(data[last].dhash, data[j].dhash, "dhash")
             phash_dist == calculate_similarity(data[last].phash, data[j].phash, "phash")
         IN  IF SimilarByBothHashes(dhash_dist, phash_dist, threshold)
             THEN ScanLater_Chained(data, threshold, i, j + 1, Append(group, j),
                                    processed \cup {j})
             ELSE ScanLater_Chained(data, threshold, i, j + 1, group, processed)

\* The inner loop: for j, img2 in enumerate(image_data[i + 1:], start=i + 1).
RECURSIVE ScanLater(_, _, _, _, _, _)
ScanLater(data, threshold, i, j, group, processed) ==
    IF j > Len(data) THEN [group |-> group, processed |-> processed]
    ELSE IF j \in processed THEN ScanLater(data, threshold, i, j + 1, group, processed)
    ELSE LET dhash_dist == calculate_similarity(data[i].dhash, data[j].dhash, "dhash")
             phash_dist == calculate_similarity(data[i].phash, data[j].phash, "phash")
         IN  IF SimilarByBothHashes(dhash_dist, phash_dist, threshold)
             THEN ScanLater(data, threshold, i, j + 1, Append(group, j), processed \cup {j})
             ELSE ScanLater(data, threshold, i, j + 1, group, processed)

\* Mutant: no processed set; every record anchors a scan of all later ones.
RECURSIVE GroupFrom_NoProcessed(_, _, _, _, _)
GroupFrom_NoProcessed(data, threshold, i, groups, processed) ==
    IF i > Len(data) THEN groups
    ELSE LET r == ScanLater(data, threshold, i, i + 1, <<i>>, {i})
         IN  GroupFrom_NoProcessed(data, threshold, i + 1,
                       IF KeepGroup(r.group) THEN Append(groups, r.group) ELSE groups,
                       r.processed)

\* The outer loop: for i, img1 in enumerate(image_data).
RECURSIVE GroupFrom(_, _, _, _, _)
GroupFrom(data, threshold, i, groups, processed) ==
    IF i > Len(data) THEN groups
    ELSE IF i \in processed THEN GroupFrom(data, threshold, i + 1, groups, processed)
    ELSE LET r == ScanLater(data, threshold, i, i + 1, <<i>>, processed \cup {i})
         IN  GroupFrom(data, threshold, i + 1,
                       IF KeepGroup(r.group) THEN Append(groups, r.group) ELSE groups,
                       r.processed)

\* The groups find_duplicate_groups returns when it returns.
find_duplicate_groups(data, threshold) == GroupFrom(data, threshold, 1, <<>>, {})

\* img1['dhash'], img2['dhash'], img1['phash'], img2['phash'] are subscripts:
\* they raise KeyError on a dict without the key, outside any try block.
\* The scan of the first anchor reaches every later record while it is
\* unprocessed, so a list of two or more records has every record
\* subscripted with both keys.
HashKeysRaise(data) ==
    /\ Len(data) >= 2
    /\ \E i \in 1..Len(data) : data[i].dhash = AbsentHash \/ data[i].phash = AbsentHash

(***************************************************************************)
(* DuplicateDetector.find_burst_sequences                                  *)
(***************************************************************************)
\* x[1].get('capture_time', ''): the sort key is '' for a missing key, None
\* for a None value, the datetime otherwise.  Python's sort compares keys
\* with <, which raises TypeError between None and anything (None too) and
\* between '' and a datetime; any sort of two or more items compares every
\* item with some other one.
SortKeysRaise(data) ==
    /\ Len(data) >= 2
    /\ \/ \E i \in 1..Len(data) : data[i].capture_time = NoneVal
       \/ /\ \E i \in 1..Len(data) : data[i].capture_time = AbsentKey
          /\ \E i \in 1..Len(data) : data[i].capture_time >= 0

\* Mutant: the list is walked in input order.
InsertByTime_Append(data, idx, sorted) == Append(sorted, idx)

\* sorted() is stable: an item goes before the first one with a larger key.
RECURSIVE InsertByTime(_, _, _)
InsertByTime(data, idx, sorted) ==
    IF sorted = <<>> THEN <<idx>>
    ELSE IF data[idx].capture_time < data[Head(sorted)].capture_time
         THEN <<idx>> \o sorted
         ELSE <<Head(sorted)>> \o InsertByTime(data, idx, Tail(sorted))

RECURSIVE SortedByTime(_, _, _)
SortedByTime(data, i, sorted) ==
    IF i > Len(data) THEN sorted
    ELSE SortedByTime(data, i + 1, InsertByTime(data, i, sorted))

\* if not img.get('capture_time'): continue   (a datetime is always truthy)
HasCaptureTime(img) == img.capture_time # NoneVal /\ img.capture_time # AbsentKey

\* Mutant: a sequence of one record is kept.
KeepSequence_NonEmpty(current_sequence) == Len(current_sequence) > 0

\* if len(current_sequence) > 1: sequences.append(current_sequence)
KeepSequence(current_sequence) == Len(current_sequence) > 1

Flush(sequences, current_sequence) ==
    IF KeepSequence(current_sequence) THEN Append(sequences, current_sequence)
    ELSE sequences

\* The walk over sorted_data, one iteration per call.
RECURSIVE BurstWalk(_, _, _, _, _, _)
BurstWalk(data, sorted_data, k, sequences, current_sequence, time_threshold_seconds) ==
    IF k > Len(sorted_data) THEN Flush(sequences, current_sequence)
    ELSE LET idx == sorted_data[k]
             img == data[idx]
         IN  IF ~HasCaptureTime(img)
             THEN BurstWalk(data, sorted_data, k + 1, sequences, current_sequence,
                            time_threshold_seconds)
             ELSE IF current_sequence = <<>>
             THEN BurstWalk(data, sorted_data, k + 1, sequences, <<idx>>,
                            time_threshold_seconds)
             ELSE LET prev_img == data[current_sequence[Len(current_sequence)]]
                      time_diff == img.capture_time - prev_img.capture_time
                      dhash_dist == calculate_similarity(img.dhash, prev_img.dhash, "dhash")
                  IN  IF time_diff <= time_threshold_seconds
                      THEN IF dhash_dist <= BurstVisualThreshold
                           THEN BurstWalk(data, sorted_data, k + 1, sequences,
                                          Append(current_sequence, idx),
                                          time_threshold_seconds)
                           ELSE BurstWalk(data, sorted_data, k + 1,
                                          Flush(sequences, current_sequence), <<idx>>,
                                          time_threshold_seconds)
                      ELSE BurstWalk(data, sorted_data, k + 1,
                                     Flush(sequences, current_sequence), <<idx>>,
                                     time_threshold_seconds)

\* The outcome of find_burst_sequences: what it raises ("" when it returns)
\* and the sequences it returns.
find_burst_sequences(data, time_threshold_seconds) ==
    IF SortKeysRaise(data) THEN [raised |-> "TypeError", value |-> <<>>]
    ELSE [raised |-> "",
          value |-> BurstWalk(data, SortedByTime(data, 1, <<>>), 1, <<>>, <<>>,
                              time_threshold_seconds)]

(***************************************************************************)
(* DuplicateDetector.select_best_from_group                                *)
(***************************************************************************)
\* image_data[idx].get('overall_score', 0): 0 only when the key is missing;
\* a key holding None yields None.
GetOverallScore(img) == IF img.overall_score = AbsentKey THEN 0 ELSE img.overall_score

\* score > best_score raises TypeError when either side is None.
RECURSIVE BestWalk(_, _, _, _, _)
BestWalk(data, group_indices, k, best_idx, best_score) ==
    IF k > Len(group_indices) THEN [raised |-> "", value |-> best_idx]
    ELSE LET idx == group_indices[k]
             score == GetOverallScore(data[idx])
         IN  IF score = NoneVal \/ best_score = NoneVal
             THEN [raised |-> "TypeError", value |-> 0]
             ELSE IF score > best_score
             THEN BestWalk(data, group_indices, k + 1, idx, score)
             ELSE BestWalk(data, group_indices, k + 1, best_idx, best_score)

select_best_from_group(data, group_indices) ==
    IF group_indices = <<>> THEN [raised |-> "IndexError", value |-> 0]
    ELSE BestWalk(data, group_indices, 2, group_indices[1],
                  GetOverallScore(data[group_indices[1]]))

(***************************************************************************)
(* detect_duplicates (backend/app/api/analysis.py)                         *)
(***************************************************************************)
\* Python's < on str: lexicographic on the character codes.
RECURSIVE StrLess(_, _)
StrLess(a, b) ==
    IF b = <<>> THEN FALSE
    ELSE IF a = <<>> THEN TRUE
    ELSE IF Head(a) # Head(b) THEN Head(a) < Head(b)
    ELSE StrLess(Tail(a), Tail(b))

\* The set of orders in which a query without ORDER BY may return the rows.
Perms(S) ==
    {f \in [1..Cardinality(S) -> S] : \A i, j \in 1..Cardinality(S) : f[i] = f[j] => i = j}

\* .not_.is_("phash", "null").not_.is_("dhash", "null"), and
\* if project_id: query.eq("project_id", project_id).  The query parameter
\* None and the column value NULL are both the empty string here: neither
\* passes "if project_id", and NULL equals no parameter.
Selected(table, project_id) ==
    {id \in DOMAIN table :
        /\ table[id].phash # NoneHash
        /\ table[id].dhash # NoneHash
        /\ (project_id # "" => table[id].project_id = project_id)}

\* Mutant: the key is the first hash alone.
HashKey_PhashOnly(img) == img.phash

\* hash_key = f"{img['phash']}|{img['dhash']}"
HashKey(img) == img.phash \o <<"|">> \o img.dhash

\* The dict hash_groups, in insertion order: one entry per key, in the
\* order of the key's first row.
RECURSIVE BuildHashGroups(_, _, _)
BuildHashGroups(imgs, k, hash_groups) ==
    IF k > Len(imgs) THEN hash_groups
    ELSE LET img == imgs[k]
             hash_key == HashKey(img)
         IN  IF \E g \in 1..Len(hash_groups) : hash_groups[g].hash_key = hash_key
             THEN BuildHashGroups(imgs, k + 1,
                     [g \in 1..Len(hash_groups) |->
                         IF hash_groups[g].hash_key = hash_key
                         THEN [hash_groups[g] EXCEPT !.group_images = Append(@, img)]
                         ELSE hash_groups[g]])
             ELSE BuildHashGroups(imgs, k + 1,
                     Append(hash_groups, [hash_key |-> hash_key, group_images |-> <<img>>]))

\* if len(group_images) <= 1: continue
SkipGroup(group_images) == Len(group_images) <= 1

\* key=lambda x: (-(x.get('overall_score') or 0), x['filename']), compared
\* as Python compares tuples; get yields None for a missing key.
NegScore(x) ==
    0 - (IF x.overall_score = NoneVal \/ x.overall_score = AbsentKey THEN 0
         ELSE x.overall_score)

SortKeyLess(x, y) ==
    \/ NegScore(x) < NegScore(y)
    \/ NegScore(x) = NegScore(y) /\ StrLess(x.filename, y.filename)

\* sorted(): stable.
RECURSIVE InsertByKey(_, _)
InsertByKey(x, sorted) ==
    IF sorted = <<>> THEN <<x>>
    ELSE IF SortKeyLess(x, Head(sorted)) THEN <<x>> \o sorted
    ELSE <<Head(sorted)>> \o InsertByKey(x, Tail(sorted))

RECURSIVE SortedImages(_, _, _)
SortedImages(group_images, k, sorted) ==
    IF k > Len(group_images) THEN sorted
    ELSE SortedImages(group_images, k + 1, InsertByKey(group_images[k], sorted))

\* Mutant: the best image is recognised by its file name.
IsBest_ByFilename(img, best_image) == img.filename = best_image.filename

\* is_best = (img['id'] == best_image['id'])
IsBest(img, best_image) == img.id = best_image.id

\* The update of one row: .update({...}).eq("id", img['id']).
UpdateRow(table, img, group_id, best_image) ==
    IF img.id \in DOMAIN table
    THEN [table EXCEPT ![img.id].duplicate_group_id = group_id,
                       ![img.id].is_duplicate =
                            IF IsBest(img, best_image) THEN "false" ELSE "true"]
    ELSE table

RECURSIVE UpdateRows(_, _, _, _, _)
UpdateRows(table, group_images, k, group_id, best_image) ==
    IF k > Len(group_images) THEN table
    ELSE UpdateRows(UpdateRow(table, group_images[k], group_id, best_image),
                    group_images, k + 1, group_id, best_image)

\* for hash_key, group_images in hash_groups.items(): one iteration per call.
\* uuid.uuid4() is the next unused number.
RECURSIVE ProcessGroups(_, _, _, _, _)
ProcessGroups(hash_groups, g, table, next_uuid, duplicate_groups) ==
    IF g > Len(hash_groups)
    THEN [images |-> table, uuid_next |-> next_uuid, duplicate_groups |-> duplicate_groups]
    ELSE LET group_images == hash_groups[g].group_images
         IN  IF SkipGroup(group_images)
             THEN ProcessGroups(hash_groups, g + 1, table, next_uuid, duplicate_groups)
             ELSE LET sorted_images == SortedImages(group_images, 1, <<>>)
                      best_image == sorted_images[1]
                      group_id == next_uuid
                  IN  ProcessGroups(hash_groups, g + 1,
                          UpdateRows(table, group_images, 1, group_id, best_image),
                          next_uuid + 1,
                          Append(duplicate_groups,
                                 [group_id |-> group_id,
                                  image_ids |-> [k \in 1..Len(group_images) |-> group_images[k].id],
                                  best_image_id |-> best_image.id,
                                  count |-> Len(group_images)]))

\* The whole handler on the rows fetched in the order `order`.
DetectOutcome(table, next_uuid, order) ==
    LET fetched == [k \in 1..Len(order) |-> table[order[k]]]
    IN  IF fetched = <<>>
        THEN [images |-> table, uuid_next |-> next_uuid, duplicate_groups |-> <<>>]
        ELSE ProcessGroups(BuildHashGroups(fetched, 1, <<>>), 1, table, next_uuid, <<>>)

(***************************************************************************)
(* Inputs.  compute_hashes yields 16-digit codes (8 x 8 bits); Hshort is   *)
(* the code of a 4 x 4 hash, of another bit length.                        *)
(***************************************************************************)
H0 == Rep("0", 16)
H3 == Rep("0", 15) \o <<"3">>
H7 == Rep("0", 15) \o <<"7">>
HF == Rep("f", 16)
Hshort == Rep("0", 4)

\* File names "a.jpg" and "b.jpg", by their first characters.
FN_a == <<97>>
FN_b == <<98>>

Thresholds == {1, 2, DefaultSimilarityThreshold, ErrorDistance}
TimeThresholds == {2, DefaultTimeThreshold}
ProjectIds == {"", "p1"}
ImageIds == 1..MaxImages

Dict(dhash, phash, capture_time, overall_score, filename) ==
    [id |-> 0, dhash |-> dhash, phash |-> phash, capture_time |-> capture_time,
     overall_score |-> overall_score, filename |-> filename]

\* Records that differ in the first hash only; in the second hash, with
\* codes that fail to compare; in both hashes; in how the second hash is
\* missing; in capture time; in capture time and first hash; in score and
\* file name; in how a score is missing.
DictsByDhash == {Dict(d, H0, AbsentKey, AbsentKey, FN_a) : d \in {H0, H3, H7}}

DictsByPhash == {Dict(H0, p, AbsentKey, AbsentKey, FN_a) : p \in {H0, HF, Hshort, NoneHash}}

DictsByBothHashes == {Dict(d, p, AbsentKey, AbsentKey, FN_a) : d \in {H0, H3}, p \in {H0, HF}}

DictsByMissingHash == {Dict(H0, p, AbsentKey, AbsentKey, FN_a) : p \in {H0, NoneHash, AbsentHash}}

DictsByTime == {Dict(H0, H0, t, AbsentKey, FN_a) : t \in {AbsentKey, NoneVal, 0, 3, 6}}

DictsByTimeAndDhash == {Dict(d, H0, t, AbsentKey, FN_a) : d \in {H0, HF}, t \in {0, 3}}

DictsByScore == {Dict(H0, H0, AbsentKey, sc, f) : sc \in {NoneVal, 80, 95}, f \in {FN_a, FN_b}}

DictsByMissingScore == {Dict(H0, H0, AbsentKey, sc, FN_a) : sc \in {AbsentKey, 0, 80}}

\* The lists of at most MaxImages dicts of D; a dict's id is its position.
ListsOf(D) ==
    UNION {{[i \in 1..n |-> [f[i] EXCEPT !.id = i]] : f \in [1..n -> D]} : n \in 0..MaxImages}

\* A row as upload_image inserts it and analyze_single_image updates it:
\* project_id, duplicate_group_id and is_duplicate are not set by either.
Row(id, filename, phash, dhash, overall_score) ==
    [id |-> id, filename |-> filename, phash |-> phash, dhash |-> dhash,
     overall_score |-> overall_score, project_id |-> "",
     duplicate_group_id |-> 0, is_duplicate |-> "NULL"]

\* analyze_single_image stores float(overall_score) if overall_score else None.
StoredScore(overall_score) == IF overall_score = 0 THEN NoneVal ELSE overall_score

RowsByHash(id) ==
    {Row(id, FN_a, hp[1], hp[2], NoneVal) :
        hp \in {<<H0, H0>>, <<H0, H3>>, <<H3, H0>>, <<NoneHash, NoneHash>>}}

RowsByScore(id) ==
    {Row(id, f, H0, H0, StoredScore(sc)) : f \in {FN_a, FN_b}, sc \in {0, 80}}

\* The tables over a subset of the ids, the row of id drawn from rows[id].
TablesOf(rows) ==
    UNION {{t \in [S -> UNION {rows[id] : id \in S}] : \A id \in S : t[id].id = id} :
           S \in SUBSET ImageIds}

NoCall == [op |-> "none"]

\* No batch request is being served.
IdleClient == [pc |-> "idle"]

\* A request that has not started.
IdlePass ==
    [pc |-> "idle", project_id |-> "", user_id |-> "", fetched |-> <<>>, hash_groups |-> <<>>,
     g |-> 0, k |-> 0, group_id |-> 0, duplicate_groups |-> <<>>]

PassIds == 1..MaxPasses

(***************************************************************************)
(* Initial states: an empty table and a list for the detector, or an       *)
(* empty list and a table of uploaded and analysed images.                 *)
(***************************************************************************)
InitDetector ==
    /\ images = <<>>
    /\ \/ image_data \in ListsOf(DictsByDhash) \cup ListsOf(DictsByBothHashes)
            /\ similarity_threshold \in Thresholds
       \/ image_data \in ListsOf(DictsByPhash)
            /\ similarity_threshold \in {DefaultSimilarityThreshold, ErrorDistance}
       \/ image_data \in ListsOf(DictsByTime) \cup ListsOf(DictsByTimeAndDhash)
                             \cup ListsOf(DictsByScore) \cup ListsOf(DictsByMissingScore)
                             \cup ListsOf(DictsByMissingHash)
            /\ similarity_threshold = DefaultSimilarityThreshold

InitStore ==
    /\ images \in TablesOf([id \in ImageIds |-> RowsByHash(id)])
                    \cup TablesOf([id \in ImageIds |-> RowsByScore(id)])
    /\ image_data = <<>>
    /\ similarity_threshold = DefaultSimilarityThreshold

Init ==
    /\ InitDetector \/ InitStore
    /\ uuid_next = 1
    /\ ret = NoCall
    /\ passes = [p \in PassIds |-> IdlePass]
    /\ jobs = <<>>
    /\ enhanced_images = <<>>
    /\ client = IdleClient

(***************************************************************************)
(* Actions: one per call; ret holds the call until the caller takes it.    *)
(***************************************************************************)
CalculateSimilarity ==
    /\ ret = NoCall
    /\ \E i, j \in 1..Len(image_data), hash_type \in {"dhash", "phash"} :
          LET hash1 == IF hash_type = "dhash" THEN image_data[i].dhash ELSE image_data[i].phash
              hash2 == IF hash_type = "dhash" THEN image_data[j].dhash ELSE image_data[j].phash
          IN  ret' = [op |-> "calculate_similarity", hash1 |-> hash1, hash2 |-> hash2,
                      hash_type |-> hash_type,
                      raised |-> "", value |-> calculate_similarity(hash1, hash2, hash_type)]
    /\ UNCHANGED <<images, uuid_next, image_data, similarity_threshold, passes,
                   jobs, enhanced_images, client>>

\* are_duplicates(image_path1, image_path2, use_both_hashes) on the files of
\* two records.
AreDuplicates ==
    /\ ret = NoCall
    /\ \E i, j \in 1..Len(image_data), use_both_hashes \in BOOLEAN :
          ret' = [op |-> "are_duplicates", i |-> i, j |-> j,
                  use_both_hashes |-> use_both_hashes, raised |-> "",
                  value |-> are_duplicates(image_data[i], image_data[j],
                                           similarity_threshold, use_both_hashes)]
    /\ UNCHANGED <<images, uuid_next, image_data, similarity_threshold, passes,
                   jobs, enhanced_images, client>>

FindDuplicateGroups ==
    /\ ret = NoCall
    /\ ret' = IF HashKeysRaise(image_data)
               THEN [op |-> "find_duplicate_groups", raised |-> "KeyError", value |-> <<>>]
               ELSE [op |-> "find_duplicate_groups", raised |-> "",
                     value |-> find_duplicate_groups(image_data, similarity_threshold)]
    /\ UNCHANGED <<images, uuid_next, image_data, similarity_threshold, passes,
                   jobs, enhanced_images, client>>

\* Mutant: the list is sorted in place (image_data.sort) instead of copied.
FindBurstSequences_SortsInPlace ==
    /\ ret = NoCall
    /\ \E time_threshold_seconds \in TimeThresholds :
          LET out == find_burst_sequences(image_data, time_threshold_seconds)
              sorted_data == SortedByTime(image_data, 1, <<>>)
          IN  /\ ret' = [op |-> "find_burst_sequences",
                         time_threshold_seconds |-> time_threshold_seconds,
                         raised |-> out.raised, value |-> out.value]
              /\ image_data' = IF out.raised # "" THEN image_data
                               ELSE [k \in 1..Len(image_data) |-> image_data[sorted_data[k]]]
    /\ UNCHANGED <<images, uuid_next, similarity_threshold, passes, jobs, enhanced_images, client>>

FindBurstSequences ==
    /\ ret = NoCall
    /\ \E time_threshold_seconds \in TimeThresholds :
          LET out == find_burst_sequences(image_data, time_threshold_seconds)
          IN  ret' = [op |-> "find_burst_sequences",
                      time_threshold_seconds |-> time_threshold_seconds,
                      raised |-> out.raised, value |-> out.value]
    /\ UNCHANGED <<images, uuid_next, image_data, similarity_threshold, passes,
                   jobs, enhanced_images, client>>

\* group_indices: any list of distinct indices of image_data.
SelectBestFromGroup ==
    /\ ret = NoCall
    /\ \E S \in SUBSET (1..Len(image_data)) : \E group_indices \in Perms(S) :
          LET out == select_best_from_group(image_data, group_indices)
          IN  ret' = [op |-> "select_best_from_group", group_indices |-> group_indices,
                      raised |-> out.raised, value |-> out.value]
    /\ UNCHANGED <<images, uuid_next, image_data, similarity_threshold, passes,
                   jobs, enhanced_images, client>>

\* detect_duplicates(project_id, user_id): user_id is accepted and never read.
DetectDuplicates ==
    /\ ret = NoCall
    /\ \E project_id \in ProjectIds : \E order \in Perms(Selected(images, project_id)) :
          LET out == DetectOutcome(images, uuid_next, order)
          IN  /\ out.uuid_next <= MaxUuid + 1
              /\ images' = out.images
              /\ uuid_next' = out.uuid_next
              /\ ret' = [op |-> "detect_duplicates", project_id |-> project_id,
                         fetched |-> [k \in 1..Len(order) |-> images[order[k]]],
                         raised |-> "", value |-> out.duplicate_groups]
    /\ UNCHANGED <<image_data, similarity_threshold, passes, jobs, enhanced_images, client>>

\* The hashes compute_hashes returns for the file of a row: those the row
\* holds if it was analysed before (the file does not change), any otherwise.
FileHashes(row) ==
    IF row.phash = NoneHash THEN {<<H0, H0>>, <<H0, H3>>} ELSE {<<row.phash, row.dhash>>}

\* analyze_single_image(image_id): 404 without a row; otherwise the row gets
\* the hashes of its file and the score of the analysis.
AnalyzeSingleImage ==
    /\ ret = NoCall
    /\ \E image_id \in ImageIds :
          IF image_id \notin DOMAIN images
          THEN /\ images' = images
               /\ ret' = [op |-> "analyze_single_image", image_id |-> image_id,
                          raised |-> "404", value |-> <<>>]
          ELSE \E hashes \in FileHashes(images[image_id]), overall_score \in {0, 80} :
                  /\ images' = [images EXCEPT ![image_id].phash = hashes[1],
                                               ![image_id].dhash = hashes[2],
                                               ![image_id].overall_score =
                                                    StoredScore(overall_score)]
                  /\ ret' = [op |-> "analyze_single_image", image_id |-> image_id,
                             raised |-> "", value |-> <<>>]
    /\ UNCHANGED <<uuid_next, image_data, similarity_threshold, passes,
                   jobs, enhanced_images, client>>

\* delete_image(image_id): 404 without a row; otherwise the row is deleted.
DeleteImage ==
    /\ ret = NoCall
    /\ \E image_id \in ImageIds :
          IF image_id \notin DOMAIN images
          THEN /\ images' = images
               /\ ret' = [op |-> "delete_image", image_id |-> image_id,
                          raised |-> "404", value |-> <<>>]
          ELSE /\ images' = [id \in DOMAIN images \ {image_id} |-> images[id]]
               /\ ret' = [op |-> "delete_image", image_id |-> image_id,
                          raised |-> "", value |-> <<>>]
    /\ UNCHANGED <<uuid_next, image_data, similarity_threshold, passes,
                   jobs, enhanced_images, client>>

\* The caller takes the result; the next call may start.
Return ==
    /\ ret # NoCall
    /\ ret' = NoCall
    /\ UNCHANGED <<images, uuid_next, image_data, similarity_threshold, passes,
                   jobs, enhanced_images, client>>

Next ==
    \/ CalculateSimilarity
    \/ AreDuplicates
    \/ FindDuplicateGroups
    \/ FindBurstSequences
    \/ SelectBestFromGroup
    \/ DetectDuplicates
    \/ AnalyzeSingleImage
    \/ DeleteImage
    \/ Return

Spec == Init /\ [][Next]_vars

(***************************************************************************)
(* Concurrent detect_duplicates requests (several workers of the server,   *)
(* one store).  A request is a sequence of calls to the store: the query,  *)
(* then one update per row of every group; what it computes between two    *)
(* calls is local to it and belongs to the step of the next call.          *)
(***************************************************************************)
StoreProjects == {"p1", "p2"}

\* The query parameters of a request: a project, or a user ("" is None).
Requests ==
    {[project_id |-> pr, user_id |-> ""] : pr \in StoreProjects}
        \cup {[project_id |-> "", user_id |-> u] : u \in {"u1", "u2"}}

\* Distinct file names, by their first characters.
FileNameOf(id) == <<96 + id>>

\* Analysed, unscored rows of the store's projects; project_id is the
\* column the query filters on.  The first two rows are copies of one image;
\* each later row is another copy of it or a copy of a second image.
StoreRows(id) ==
    {[Row(id, FileNameOf(id), H0, d, NoneVal) EXCEPT !.project_id = pr] :
        d \in (IF id <= 2 THEN {H0} ELSE {H0, H3}), pr \in StoreProjects}

StoreTables == {t \in [ImageIds -> UNION {StoreRows(id) : id \in ImageIds}] :
                   \A id \in ImageIds : t[id].id = id}

InitPasses ==
    /\ images \in StoreTables
    /\ uuid_next = 1
    /\ image_data = <<>>
    /\ similarity_threshold = DefaultSimilarityThreshold
    /\ ret = NoCall
    /\ passes = [p \in PassIds |-> IdlePass]
    /\ jobs = <<>>
    /\ enhanced_images = <<>>
    /\ client = IdleClient

\* The first group from position g on that the loop does not skip, or
\* Len(hash_groups) + 1.
RECURSIVE NextGroup(_, _)
NextGroup(hash_groups, g) ==
    IF g > Len(hash_groups) THEN g
    ELSE IF SkipGroup(hash_groups[g].group_images) THEN NextGroup(hash_groups, g + 1)
    ELSE g

\* query.execute(), and what follows up to the first update or the return.
\* user_id is a parameter of the request that the handler never reads.
PassQuery ==
    \E p \in PassIds :
        /\ passes[p].pc = "idle"
        /\ \E request \in Requests :
           \E order \in Perms(Selected(images, request.project_id)) :
              LET fetched == [k \in 1..Len(order) |-> images[order[k]]]
                  hash_groups == BuildHashGroups(fetched, 1, <<>>)
                  g == NextGroup(hash_groups, 1)
              IN  passes' = [passes EXCEPT ![p] =
                      [pc |-> IF g > Len(hash_groups) THEN "done" ELSE "update",
                       project_id |-> request.project_id, user_id |-> request.user_id,
                       fetched |-> fetched,
                       hash_groups |-> hash_groups, g |-> g, k |-> 1,
                       group_id |-> 0, duplicate_groups |-> <<>>]]
        /\ UNCHANGED <<images, uuid_next, image_data, similarity_threshold, ret,
                       jobs, enhanced_images, client>>

\* One .update(...).eq("id", img['id']).execute(), with the sort and the
\* uuid4() before the first row of a group and the append to
\* duplicate_groups after its last row.
PassUpdate ==
    \E p \in PassIds :
        /\ passes[p].pc = "update"
        /\ LET ps == passes[p]
               group_images == ps.hash_groups[ps.g].group_images
               sorted_images == SortedImages(group_images, 1, <<>>)
               best_image == sorted_images[1]
               group_id == IF ps.k = 1 THEN uuid_next ELSE ps.group_id
               g == NextGroup(ps.hash_groups, ps.g + 1)
           IN  /\ uuid_next' = IF ps.k = 1 THEN uuid_next + 1 ELSE uuid_next
               /\ images' = UpdateRow(images, group_images[ps.k], group_id, best_image)
               /\ passes' = [passes EXCEPT ![p] =
                      IF ps.k < Len(group_images)
                      THEN [ps EXCEPT !.k = ps.k + 1, !.group_id = group_id]
                      ELSE [ps EXCEPT
                               !.pc = IF g > Len(ps.hash_groups) THEN "done" ELSE "update",
                               !.g = g, !.k = 1, !.group_id = group_id,
                               !.duplicate_groups =
                                   Append(@, [group_id |-> group_id,
                                              image_ids |-> [k \in 1..Len(group_images) |->
                                                                group_images[k].id],
                                              best_image_id |-> best_image.id,
                                              count |-> Len(group_images)])]]
        /\ UNCHANGED <<image_data, similarity_threshold, ret, jobs, enhanced_images, client>>

NextPasses ==
    \/ PassQuery
    \/ PassUpdate

SpecPasses == InitPasses /\ [][NextPasses]_vars

(***************************************************************************)
(* Batch enhancement: backend/app/api/batch.py and                         *)
(* backend/app/services/batch_enhancement.py.  The API process, the RQ     *)
(* worker and the expiry of job keys in Redis run side by side; a step is  *)
(* one call to Redis or to the store, with what its caller computes        *)
(* before it.  A job id is the job's position in jobs; a job whose key has *)
(* expired keeps its position, with status "expired".                      *)
(***************************************************************************)
MaxBatchImages == 100
FieldMinLength == 1
FieldMaxLength == 100

MaxJobs == 1
MaxListed == 2
MaxLibraryRows == 2
MaxTotalImages == 100

\* Image ids: one with a file in the upload folder, one without.
UploadedIds == {"i1"}
BatchImageIds == {"i1", "i2"}

\* The image_ids of a request: every list of up to MaxListed ids, and lists
\* of MaxBatchImages and MaxBatchImages + 1 ids.
RequestLists ==
    UNION {[1..n -> BatchImageIds] : n \in 0..MaxListed}
        \cup {Rep("i1", MaxBatchImages), Rep("i1", MaxBatchImages + 1)}

\* BatchEnhancementRequest: image_ids = Field(..., min_length=1,
\* max_length=100); a body that fails validation is answered with 422 and
\* the handler does not run.
ValidationRejects(image_ids) ==
    Len(image_ids) < FieldMinLength \/ Len(image_ids) > FieldMaxLength

\* The status code the handler's own checks end in: HTTPException(400) is
\* raised inside the try block, whose "except Exception" clause catches it
\* and raises HTTPException(500); 0 when the checks pass.
HandlerRejects(image_ids) ==
    IF Len(image_ids) = 0 \/ Len(image_ids) > MaxBatchImages THEN 500 ELSE 0

\* job.meta as a dict without keys; meta.get('current', 0) and
\* meta.get('total', 0) read 0 from it.
NoMeta == [status |-> "", current |-> 0, total |-> 0]

\* job.result before the job has returned (None).
NoResult == [present |-> FALSE, results |-> <<>>]

\* The job queue.enqueue creates.
NewJob(image_ids) ==
    [image_ids |-> image_ids, status |-> "queued", meta |-> NoMeta,
     worker |-> "none", results |-> <<>>, result |-> NoResult]

\* The answer of a handler to a request with argument arg (the image_ids of
\* start_batch_enhancement, the job_id of the others).
Response(op, arg, status_code, body) ==
    [pc |-> "done", op |-> op, arg |-> arg, status_code |-> status_code, body |-> body]

\* get_job_status(job_id)['status']: Job.fetch raises for a missing key.
JobStatus(job_id) ==
    IF job_id \notin DOMAIN jobs \/ jobs[job_id].status = "expired" THEN "unknown"
    ELSE jobs[job_id].status

\* enhance_single_image: "failed" without a file, "success" otherwise.
enhance_single_image(image_id) ==
    [image_id |-> image_id,
     status |-> IF image_id \in UploadedIds THEN "success" ELSE "failed"]

\* Mutant: every result of the job is returned.
IsSuccess_Any(r) == r.status \in {"success", "failed"}

\* if r['status'] == 'success'
IsSuccess(r) == r.status = "success"

\* BatchEnhancementService.get_enhanced_images
get_enhanced_images(job_id) ==
    IF JobStatus(job_id) # "finished" THEN <<>>
    ELSE IF ~jobs[job_id].result.present THEN <<>>
    ELSE SelectSeq(jobs[job_id].result.results, IsSuccess)

\* The number of images of all jobs enqueued so far.
RECURSIVE TotalImages(_)
TotalImages(js) == IF js = <<>> THEN 0 ELSE Len(Head(js).image_ids) + TotalImages(Tail(js))

detectVars == <<images, uuid_next, image_data, similarity_threshold, ret, passes>>

InitBatch ==
    /\ images = <<>>
    /\ uuid_next = 1
    /\ image_data = <<>>
    /\ similarity_threshold = DefaultSimilarityThreshold
    /\ ret = NoCall
    /\ passes = [p \in PassIds |-> IdlePass]
    /\ jobs = <<>>
    /\ enhanced_images = <<>>
    /\ client = IdleClient

\* start_batch_enhancement up to queue.enqueue.
StartBatchEnhancement ==
    /\ client.pc = "idle"
    /\ \E image_ids \in RequestLists :
          IF ValidationRejects(image_ids)
          THEN /\ jobs' = jobs
               /\ client' = Response("start_batch_enhancement", image_ids, 422, <<>>)
          ELSE IF HandlerRejects(image_ids) # 0
          THEN /\ jobs' = jobs
               /\ client' = Response("start_batch_enhancement", image_ids,
                                     HandlerRejects(image_ids), <<>>)
          ELSE /\ Len(jobs) < MaxJobs
               /\ TotalImages(jobs) + Len(image_ids) <= MaxTotalImages
               /\ jobs' = Append(jobs, NewJob(image_ids))
               /\ client' = [pc |-> "save_meta", op |-> "start_batch_enhancement",
                             arg |-> image_ids, job_id |-> Len(jobs) + 1]
    /\ UNCHANGED <<enhanced_images, detectVars>>

\* job.save_meta() in enqueue_batch_job, and the handler's return.
EnqueueSaveMeta ==
    /\ client.pc = "save_meta"
    /\ LET total == Len(jobs[client.job_id].image_ids)
       IN  /\ jobs' = [jobs EXCEPT ![client.job_id].meta =
                          [status |-> "queued", current |-> 0, total |-> total]]
           /\ client' = Response("start_batch_enhancement", client.arg, 200,
                                 [job_id |-> client.job_id, status |-> "queued",
                                  total_images |-> total])
    /\ UNCHANGED <<enhanced_images, detectVars>>

\* download_batch_zip up to the status test; the job id may be unknown.
DownloadBatchZip ==
    /\ client.pc = "idle"
    /\ \E job_id \in 1..(MaxJobs + 1) :
          client' = IF JobStatus(job_id) = "unknown"
                    THEN Response("download_batch_zip", job_id, 404, <<>>)
                    ELSE IF JobStatus(job_id) # "finished"
                    THEN Response("download_batch_zip", job_id, 400, <<>>)
                    ELSE [pc |-> "download_images", op |-> "download_batch_zip",
                          arg |-> job_id]
    /\ UNCHANGED <<jobs, enhanced_images, detectVars>>

\* get_enhanced_images and the streamed ZIP of download_batch_zip.
DownloadImages ==
    /\ client.pc = "download_images"
    /\ LET enhanced == get_enhanced_images(client.arg)
       IN  client' = IF enhanced = <<>>
                     THEN Response("download_batch_zip", client.arg, 404, <<>>)
                     ELSE Response("download_batch_zip", client.arg, 200, enhanced)
    /\ UNCHANGED <<jobs, enhanced_images, detectVars>>

\* save_batch_to_library up to the status test.  Only batches that fit in
\* the modelled library are asked for.
SaveBatchToLibrary ==
    /\ client.pc = "idle"
    /\ \E job_id \in 1..(MaxJobs + 1) :
          /\ job_id \in DOMAIN jobs =>
                Len(enhanced_images) + Len(jobs[job_id].image_ids) <= MaxLibraryRows
          /\ client' = IF JobStatus(job_id) = "unknown"
                       THEN Response("save_batch_to_library", job_id, 404, <<>>)
                       ELSE IF JobStatus(job_id) # "finished"
                       THEN Response("save_batch_to_library", job_id, 400, <<>>)
                       ELSE [pc |-> "save_images", op |-> "save_batch_to_library",
                             arg |-> job_id]
    /\ UNCHANGED <<jobs, enhanced_images, detectVars>>

\* The library entry of an enhanced image.
LibraryEntry(img, job_id) ==
    [user_id |-> "u1", original_image_id |-> img.image_id, description |-> job_id]

\* get_enhanced_images and the inserts of save_batch_to_library; the store
\* may refuse the insert for some images.
SaveImages ==
    /\ client.pc = "save_images"
    /\ LET enhanced == get_enhanced_images(client.arg)
       IN  IF enhanced = <<>>
           THEN /\ enhanced_images' = enhanced_images
                /\ client' = Response("save_batch_to_library", client.arg, 404, <<>>)
           ELSE \E refused \in SUBSET BatchImageIds :
                   LET Saved(img) == img.image_id \notin refused
                       saved == SelectSeq(enhanced, Saved)
                   IN  /\ enhanced_images' =
                             enhanced_images \o
                                [k \in 1..Len(saved) |-> LibraryEntry(saved[k], client.arg)]
                       /\ client' = Response("save_batch_to_library", client.arg, 200,
                                             [saved_count |-> Len(saved),
                                              failed_count |-> Len(enhanced) - Len(saved),
                                              total_images |-> Len(enhanced)])
    /\ UNCHANGED <<jobs, detectVars>>

\* The client has its answer; the next request may come.
ClientReturn ==
    /\ client.pc = "done"
    /\ client' = IdleClient
    /\ UNCHANGED <<jobs, enhanced_images, detectVars>>

\* A worker takes the job from the queue and calls batch_enhance_images.
WorkerStart ==
    /\ \E j \in DOMAIN jobs :
          /\ jobs[j].status = "queued"
          /\ jobs' = [jobs EXCEPT ![j].status = "started", ![j].worker = "loop"]
    /\ UNCHANGED <<enhanced_images, client, detectVars>>

\* One iteration of the loop: the progress in job.meta, then the image.
WorkerEnhance ==
    /\ \E j \in DOMAIN jobs :
          LET index == Len(jobs[j].results)
              total_images == Len(jobs[j].image_ids)
          IN  /\ jobs[j].status = "started" /\ jobs[j].worker = "loop"
              /\ index < total_images
              /\ jobs' = [jobs EXCEPT
                    ![j].meta = [status |-> "processing", current |-> index + 1,
                                 total |-> total_images],
                    ![j].results = Append(@, enhance_single_image(jobs[j].image_ids[index + 1]))]
    /\ UNCHANGED <<enhanced_images, client, detectVars>>

\* The final job metadata update, after the loop.
WorkerComplete ==
    /\ \E j \in DOMAIN jobs :
          LET total_images == Len(jobs[j].image_ids)
          IN  /\ jobs[j].status = "started" /\ jobs[j].worker = "loop"
              /\ Len(jobs[j].results) = total_images
              /\ jobs' = [jobs EXCEPT
                    ![j].meta = [status |-> "completed", current |-> total_images,
                                 total |-> total_images],
                    ![j].worker = "return"]
    /\ UNCHANGED <<enhanced_images, client, detectVars>>

\* batch_enhance_images returns: RQ stores the result and the status.
WorkerReturn ==
    /\ \E j \in DOMAIN jobs :
          /\ jobs[j].status = "started" /\ jobs[j].worker = "return"
          /\ jobs' = [jobs EXCEPT ![j].status = "finished", ![j].worker = "none",
                                  ![j].result = [present |-> TRUE, results |-> jobs[j].results]]
    /\ UNCHANGED <<enhanced_images, client, detectVars>>

\* The job times out (job_timeout) or its worker dies.
JobFails ==
    /\ \E j \in DOMAIN jobs :
          /\ jobs[j].status = "started"
          /\ jobs' = [jobs EXCEPT ![j].status = "failed", ![j].worker = "none"]
    /\ UNCHANGED <<enhanced_images, client, detectVars>>

\* result_ttl / failure_ttl (one hour) have passed: the job's key is gone.
\* The handler that enqueued the job has returned long before.
JobExpires ==
    /\ \E j \in DOMAIN jobs :
          /\ jobs[j].status \in {"finished", "failed"}
          /\ ~(client.pc = "save_meta" /\ client.job_id = j)
          /\ jobs' = [jobs EXCEPT ![j].status = "expired", ![j].meta = NoMeta,
                                  ![j].results = <<>>, ![j].result = NoResult]
    /\ UNCHANGED <<enhanced_images, client, detectVars>>

NextBatch ==
    \/ StartBatchEnhancement
    \/ EnqueueSaveMeta
    \/ DownloadBatchZip
    \/ DownloadImages
    \/ SaveBatchToLibrary
    \/ SaveImages
    \/ ClientReturn
    \/ WorkerStart
    \/ WorkerEnhance
    \/ WorkerComplete
    \/ WorkerReturn
    \/ JobFails
    \/ JobExpires

SpecBatch == InitBatch /\ [][NextBatch]_vars

(***************************************************************************)
(* Properties.                                                             *)
(***************************************************************************)
\* Two indices lie in one group of a list of groups.
SameGroup(groups, a, b) ==
    \E g \in 1..Len(groups) : a \in Range(groups[g]) /\ b \in Range(groups[g])

Grouped(groups, a) == \E g \in 1..Len(groups) : a \in Range(groups[g])

AfterFind == ret.op = "find_duplicate_groups"
AfterBurst == ret.op = "find_burst_sequences"
AfterSelect == ret.op = "select_best_from_group"
AfterDetect == ret.op = "detect_duplicates"
AfterDistance == ret.op = "calculate_similarity"

\* C1 (as stated): two records that share a group at the detector's
\* threshold share a group at every larger threshold, for the same list.
C1_ThresholdMonotone ==
    AfterFind =>
        \A t2 \in Thresholds : t2 > similarity_threshold =>
            \A a, b \in 1..Len(image_data) :
                SameGroup(ret.value, a, b) =>
                    SameGroup(find_duplicate_groups(image_data, t2), a, b)

\* C1 (amended): two records that are in the group of the first record of
\* the list at the detector's threshold share a group at every larger
\* threshold.
C1_FirstGroupMonotone ==
    AfterFind =>
        \A t2 \in Thresholds : t2 > similarity_threshold =>
            \A a, b \in 1..Len(image_data) :
                (SameGroup(ret.value, 1, a) /\ SameGroup(ret.value, 1, b)) =>
                    SameGroup(find_duplicate_groups(image_data, t2), a, b)

\* C1 witness: the first record's group has members, and a larger threshold
\* adds one.
C1_Witness ==
    /\ AfterFind
    /\ \E a \in 2..Len(image_data) : SameGroup(ret.value, 1, a)
    /\ \E t2 \in Thresholds, b \in 2..Len(image_data) :
          /\ t2 > similarity_threshold
          /\ ~SameGroup(ret.value, 1, b)
          /\ SameGroup(find_duplicate_groups(image_data, t2), 1, b)

\* The ids of one emitted group of detect_duplicates share a response group.
SameResponseGroup(duplicate_groups, id1, id2) ==
    \E g \in 1..Len(duplicate_groups) :
        id1 \in Range(duplicate_groups[g].image_ids) /\ id2 \in Range(duplicate_groups[g].image_ids)

\* C2: two fetched rows (both hashes present) are in one emitted group
\* exactly when their (phash, dhash) pairs are equal.
C2_ExactMatchByKey ==
    AfterDetect =>
        \A a, b \in 1..Len(ret.fetched) :
            a # b =>
                (SameResponseGroup(ret.value, ret.fetched[a].id, ret.fetched[b].id)
                    <=> (ret.fetched[a].phash = ret.fetched[b].phash
                            /\ ret.fetched[a].dhash = ret.fetched[b].dhash))

\* C2 witness: a group was emitted, and a fetched row with the same phash
\* and another dhash is outside it.
C2_Witness ==
    /\ AfterDetect
    /\ \E a, b, c \in 1..Len(ret.fetched) :
          /\ a # b
          /\ SameResponseGroup(ret.value, ret.fetched[a].id, ret.fetched[b].id)
          /\ ret.fetched[c].phash = ret.fetched[a].phash
          /\ ret.fetched[c].dhash # ret.fetched[a].dhash
          /\ ~SameResponseGroup(ret.value, ret.fetched[a].id, ret.fetched[c].id)

\* C3: every group of the clusterer and of the exact-match grouper, and
\* every burst sequence, has at least two members.
C3_NoSingleton ==
    /\ (AfterFind \/ AfterBurst) => \A g \in 1..Len(ret.value) : Len(ret.value[g]) >= 2
    /\ AfterDetect =>
          \A g \in 1..Len(ret.value) :
              Len(ret.value[g].image_ids) >= 2 /\ ret.value[g].count >= 2

\* C3 witness: the clusterer emitted a group and left a record ungrouped.
C3_Witness ==
    /\ AfterFind
    /\ Len(ret.value) >= 1
    /\ \E a \in 1..Len(image_data) : ~Grouped(ret.value, a)

\* The order of the representative rule: score descending, a missing score
\* (None or no key) counted as 0, then file name ascending.
ScoreOrZero(x) ==
    IF x.overall_score = NoneVal \/ x.overall_score = AbsentKey THEN 0 ELSE x.overall_score

RanksBefore(x, y) ==
    \/ ScoreOrZero(x) > ScoreOrZero(y)
    \/ ScoreOrZero(x) = ScoreOrZero(y) /\ StrLess(x.filename, y.filename)

Unscored(x) == x.overall_score = NoneVal

\* The fetched row of an id, and the rows of an emitted group in the order
\* of its image_ids.
FetchedRow(id) == ret.fetched[CHOOSE k \in 1..Len(ret.fetched) : ret.fetched[k].id = id]

GroupRows(group) == [k \in 1..Len(group.image_ids) |-> FetchedRow(group.image_ids[k])]

\* No member of an emitted group of detect_duplicates ranks before its
\* best image.
DetectFollowsRule ==
    AfterDetect =>
        \A g \in 1..Len(ret.value) :
            \A m \in Range(ret.value[g].image_ids) :
                ~RanksBefore(FetchedRow(m), FetchedRow(ret.value[g].best_image_id))

\* No member of the group ranks before the index select_best_from_group
\* returns.
SelectFollowsRule ==
    (AfterSelect /\ ret.raised = "") =>
        \A m \in Range(ret.group_indices) : ~RanksBefore(image_data[m], image_data[ret.value])

\* C4: the representative of a group is a first member under the order
\* "score descending, missing as 0, then file name ascending", whichever
\* selector picks it.
C4_RepresentativeRule == DetectFollowsRule /\ SelectFollowsRule

\* C5: selection over a group with an unscored (None) member raises nothing,
\* and never returns an unscored member when the group has a scored one.
C5_UnscoredNeverChosen ==
    /\ (AfterSelect /\ ret.group_indices # <<>>
            /\ \E m \in Range(ret.group_indices) : Unscored(image_data[m])) =>
          /\ ret.raised = ""
          /\ (\E m \in Range(ret.group_indices) : ~Unscored(image_data[m])) =>
                ~Unscored(image_data[ret.value])
    /\ AfterDetect =>
          \A g \in 1..Len(ret.value) :
              (\E m \in Range(ret.value[g].image_ids) : ~Unscored(FetchedRow(m))) =>
                  ~Unscored(FetchedRow(ret.value[g].best_image_id))

\* The ids detect_duplicates would pick for a group fetched in another order.
BestIdsOverOrders(group) ==
    {SortedImages([k \in 1..Len(group.image_ids) |-> GroupRows(group)[p[k]]], 1, <<>>)[1].id :
        p \in Perms(1..Len(group.image_ids))}

\* The outcomes of select_best_from_group over the orders of a group.
SelectOverOrders(group_indices) ==
    {select_best_from_group(image_data, [k \in 1..Len(group_indices) |-> group_indices[p[k]]]) :
        p \in Perms(1..Len(group_indices))}

\* C6: the representative does not depend on the order of the members.
C6_OrderIndependent ==
    /\ AfterDetect =>
          \A g \in 1..Len(ret.value) :
              BestIdsOverOrders(ret.value[g]) = {ret.value[g].best_image_id}
    /\ (AfterSelect /\ ret.raised = "") =>
          SelectOverOrders(ret.group_indices) = {[raised |-> "", value |-> ret.value]}

\* C7: after a pass, each emitted group's best image is a member, every
\* member's row carries the group's id, and the best image's row is the one
\* with is_duplicate false, all others having it true.
C7_GroupAssignment ==
    AfterDetect =>
        \A g \in 1..Len(ret.value) :
            LET group == ret.value[g]
                members == Range(group.image_ids)
            IN  /\ group.best_image_id \in members
                /\ \A m \in members :
                      /\ m \in DOMAIN images
                      /\ images[m].duplicate_group_id = group.group_id
                      /\ images[m].is_duplicate =
                            (IF m = group.best_image_id THEN "false" ELSE "true")
                /\ Cardinality({m \in members : images[m].is_duplicate = "false"}) = 1

\* C7 witness: a pass emitted a group of three rows.
C7_Witness ==
    /\ AfterDetect
    /\ \E g \in 1..Len(ret.value) : Len(ret.value[g].image_ids) >= 3

\* The last call compared two well-formed codes of different length.
ComparedUnequalLengths ==
    /\ AfterDistance
    /\ IsHexString(ret.hash1) /\ IsHexString(ret.hash2)
    /\ Len(ret.hash1) # Len(ret.hash2)

C9_Symmetric ==
    AfterDistance => ret.value = calculate_similarity(ret.hash2, ret.hash1, ret.hash_type)

\* C9 witness: two different codes of equal length were compared.
C9_Witness ==
    /\ AfterDistance
    /\ IsHexString(ret.hash1) /\ IsHexString(ret.hash2)
    /\ Len(ret.hash1) = Len(ret.hash2)
    /\ ret.hash1 # ret.hash2
    /\ ret.value > 0 /\ ret.value < ErrorDistance

\* C10: for well-formed codes of equal length the distance is 0 exactly
\* when the two codes are the same code.
C10_ZeroIffSame ==
    (AfterDistance /\ IsHexString(ret.hash1) /\ IsHexString(ret.hash2)
        /\ Len(ret.hash1) = Len(ret.hash2)) =>
        (ret.value = 0 <=> ret.hash1 = ret.hash2)

\* C10 witness: a code was compared with itself.
C10_Witness ==
    AfterDistance /\ IsHexString(ret.hash1) /\ ret.hash1 = ret.hash2 /\ ret.value = 0

\* The indices of the records that have a capture time, in list order, and
\* the list of those records alone.
RECURSIVE IndicesWithTime(_, _)
IndicesWithTime(data, i) ==
    IF i > Len(data) THEN <<>>
    ELSE IF HasCaptureTime(data[i]) THEN <<i>> \o IndicesWithTime(data, i + 1)
    ELSE IndicesWithTime(data, i + 1)

OnlyWithTime(data) ==
    [k \in 1..Len(IndicesWithTime(data, 1)) |-> data[IndicesWithTime(data, 1)[k]]]

\* Groups over a shorter list, written with the indices of the full one:
\* kept[k] is the full-list index of the k-th record of the shorter list.
InFullIndices(kept, groups) ==
    [s \in 1..Len(groups) |-> [k \in 1..Len(groups[s]) |-> kept[groups[s][k]]]]

MixedCaptureTimes ==
    /\ \E i \in 1..Len(image_data) : ~HasCaptureTime(image_data[i])
    /\ \E i \in 1..Len(image_data) : HasCaptureTime(image_data[i])

\* C11: on a list where some records have a capture time and some have
\* none, find_burst_sequences raises nothing, puts no record without a
\* capture time in a sequence, and returns what it returns on the records
\* with a capture time alone.
C11_PartialDataTolerated ==
    (AfterBurst /\ MixedCaptureTimes) =>
        /\ ret.raised = ""
        /\ \A i \in 1..Len(image_data) :
              ~HasCaptureTime(image_data[i]) => ~Grouped(ret.value, i)
        /\ ret.value =
              InFullIndices(IndicesWithTime(image_data, 1),
                  find_burst_sequences(OnlyWithTime(image_data),
                                       ret.time_threshold_seconds).value)

\* A record has both hashes: the keys are there and hold no None.
HasBothHashes(img) ==
    /\ img.phash # NoneHash /\ img.phash # AbsentHash
    /\ img.dhash # NoneHash /\ img.dhash # AbsentHash

RECURSIVE IndicesWithHashes(_, _)
IndicesWithHashes(data, i) ==
    IF i > Len(data) THEN <<>>
    ELSE IF HasBothHashes(data[i]) THEN <<i>> \o IndicesWithHashes(data, i + 1)
    ELSE IndicesWithHashes(data, i + 1)

OnlyWithHashes(data) ==
    [k \in 1..Len(IndicesWithHashes(data, 1)) |-> data[IndicesWithHashes(data, 1)[k]]]

\* The response groups of a pass without their group ids.
WithoutGroupIds(duplicate_groups) ==
    [g \in 1..Len(duplicate_groups) |->
        [image_ids |-> duplicate_groups[g].image_ids,
         best_image_id |-> duplicate_groups[g].best_image_id,
         count |-> duplicate_groups[g].count]]

\* The table without the rows that lack a hash.
RowsWithHashes(table) == [id \in {r \in DOMAIN table : HasBothHashes(table[r])} |-> table[id]]

\* C12: a record that lacks a hash is in no group of the clusterer or of
\* the exact-match pass, the call raises nothing, and the groups are those
\* formed from the records that have both hashes.
C12_MissingHashTolerated ==
    /\ (AfterFind /\ \E i \in 1..Len(image_data) : ~HasBothHashes(image_data[i])) =>
          /\ ret.raised = ""
          /\ \A i \in 1..Len(image_data) :
                ~HasBothHashes(image_data[i]) => ~Grouped(ret.value, i)
          /\ ret.value =
                InFullIndices(IndicesWithHashes(image_data, 1),
                    find_duplicate_groups(OnlyWithHashes(image_data), similarity_threshold))
    /\ AfterDetect =>
          /\ ret.raised = ""
          /\ \A id \in DOMAIN images :
                ~HasBothHashes(images[id]) =>
                    \A g \in 1..Len(ret.value) : id \notin Range(ret.value[g].image_ids)
          /\ WithoutGroupIds(ret.value) =
                WithoutGroupIds(
                    DetectOutcome(RowsWithHashes(images), 1,
                                  [k \in 1..Len(ret.fetched) |-> ret.fetched[k].id]).duplicate_groups)

\* C13: with no eligible record (an empty input, or only records without
\* hashes, or without a capture time) each detector returns an empty result
\* and raises nothing.
C13_NothingEligibleGivesEmpty ==
    /\ (AfterDetect /\ ret.fetched = <<>>) => (ret.raised = "" /\ ret.value = <<>>)
    /\ (AfterFind /\ \A i \in 1..Len(image_data) : ~HasBothHashes(image_data[i])) =>
          (ret.raised = "" /\ ret.value = <<>>)
    /\ (AfterBurst /\ \A i \in 1..Len(image_data) : ~HasCaptureTime(image_data[i])) =>
          (ret.raised = "" /\ ret.value = <<>>)

\* C14: a detect_duplicates pass that runs after an earlier pass has
\* assigned a group (uuid_next > 1), over the same rows, leaves every row's
\* duplicate_group_id and is_duplicate as they were.
C14_RerunLeavesAssignment ==
    [][(ret'.op = "detect_duplicates" /\ uuid_next > 1) => images' = images]_vars

\* C16: no call of the clusterer, the burst detector or the selector
\* changes the list it was given or a record of it.
C16_InputListUnchanged ==
    [][ret'.op \in {"find_duplicate_groups", "find_burst_sequences", "select_best_from_group"}
          => image_data' = image_data]_vars

\* C16 witness: the burst detector returned a sequence for a list that is
\* not in capture-time order (an in-place sort would have reordered it).
C16_Witness ==
    /\ AfterBurst /\ ret.raised = "" /\ Len(ret.value) >= 1
    /\ \E k \in 1..Len(image_data) : SortedByTime(image_data, 1, <<>>)[k] # k

\* Both distances between two records are within the threshold.
WithinThreshold(x, y, threshold) ==
    /\ calculate_similarity(x.dhash, y.dhash, "dhash") <= threshold
    /\ calculate_similarity(x.phash, y.phash, "phash") <= threshold

\* Records b < c after the first record, which is within the threshold of b
\* and not of c, while b is within the threshold of c.
ChainThroughMiddle(b, c) ==
    /\ 1 < b /\ b < c /\ c <= Len(image_data)
    /\ WithinThreshold(image_data[1], image_data[b], similarity_threshold)
    /\ WithinThreshold(image_data[b], image_data[c], similarity_threshold)
    /\ ~WithinThreshold(image_data[1], image_data[c], similarity_threshold)

\* C17 (as stated): with A the first record (the first anchor), B and C
\* after it in this order, A-B and B-C within the threshold and A-C not,
\* all three are in one group.
C17_TransitiveMerge ==
    (AfterFind /\ ret.raised = "") =>
        \A b, c \in 1..Len(image_data) :
            ChainThroughMiddle(b, c) =>
                (SameGroup(ret.value, 1, b) /\ SameGroup(ret.value, b, c))

\* C17 (amended): in that case A and B share a group and C is not in it: C
\* is compared with the anchor A alone, never with B.
C17_NoMergeThroughMiddle ==
    (AfterFind /\ ret.raised = "") =>
        \A b, c \in 1..Len(image_data) :
            ChainThroughMiddle(b, c) =>
                (SameGroup(ret.value, 1, b) /\ ~SameGroup(ret.value, 1, c)
                    /\ ~SameGroup(ret.value, b, c))

\* C17 witness: the clusterer ran on such a chain A, B, C.
C17_Witness ==
    /\ AfterFind /\ ret.raised = ""
    /\ ChainThroughMiddle(2, 3)
    /\ ret.value = <<(<<1, 2>>)>>

\* A record is in a group emitted before the g-th one.
InEarlierGroup(groups, g, j) == \E g2 \in 1..(g - 1) : j \in Range(groups[g2])

\* C18: a record is a later member of an emitted group exactly when it
\* comes after the group's anchor (its first member), is in no group emitted
\* before, and both its distances to the anchor are within the threshold.
C18_AnchorRule ==
    (AfterFind /\ ret.raised = "") =>
        \A g \in 1..Len(ret.value) : \A j \in 1..Len(image_data) :
            LET anchor == ret.value[g][1]
            IN  (j \in Range(ret.value[g]) /\ j # anchor)
                    <=> (/\ j > anchor
                         /\ ~InEarlierGroup(ret.value, g, j)
                         /\ WithinThreshold(image_data[anchor], image_data[j],
                                            similarity_threshold))

\* C18 witness: a group {A, B, C} whose members B and C are farther than the
\* threshold from each other.
C18_Witness ==
    /\ AfterFind /\ ret.raised = ""
    /\ \E g \in 1..Len(ret.value) :
          /\ Len(ret.value[g]) >= 3
          /\ ~WithinThreshold(image_data[ret.value[g][2]], image_data[ret.value[g][3]],
                              similarity_threshold)

\* The index is the anchor of a scan: it is in no emitted group, or it is
\* the first member of one.
IsAnchor(groups, a) ==
    \A g \in 1..Len(groups) : a \in Range(groups[g]) => groups[g][1] = a

\* C19: the clusterer merges on either hash when the caller does not want
\* both required: a record after an anchor, in no group of an earlier
\* anchor, that are_duplicates accepts with use_both_hashes false, is in the
\* anchor's group.  find_duplicate_groups has no such parameter; what it
\* does is all a caller can get.
C19_EitherHashMerges ==
    (AfterFind /\ ret.raised = "") =>
        \A a, j \in 1..Len(image_data) :
            (/\ a < j
             /\ IsAnchor(ret.value, a)
             /\ \A a2 \in 1..(a - 1) : ~SameGroup(ret.value, a2, j)
             /\ are_duplicates(image_data[a], image_data[j], similarity_threshold, FALSE))
                => SameGroup(ret.value, a, j)

\* C20: the members of a burst sequence are in ascending capture-time
\* order, and each is within the time window and within 30 bits (dhash) of
\* the member before it.
C20_BurstSound ==
    (AfterBurst /\ ret.raised = "") =>
        \A s \in 1..Len(ret.value) : \A k \in 1..(Len(ret.value[s]) - 1) :
            LET prev_img == image_data[ret.value[s][k]]
                img == image_data[ret.value[s][k + 1]]
            IN  /\ HasCaptureTime(prev_img) /\ HasCaptureTime(img)
                /\ prev_img.capture_time <= img.capture_time
                /\ img.capture_time - prev_img.capture_time <= ret.time_threshold_seconds
                /\ calculate_similarity(img.dhash, prev_img.dhash, "dhash")
                      <= BurstVisualThreshold

\* C20 witness: a sequence whose members are not in input order, and a
\* record with a capture time that is in no sequence.
C20_Witness ==
    /\ AfterBurst /\ ret.raised = ""
    /\ \E s \in 1..Len(ret.value) : \E k \in 1..(Len(ret.value[s]) - 1) :
          ret.value[s][k] > ret.value[s][k + 1]
    /\ \E i \in 1..Len(image_data) :
          HasCaptureTime(image_data[i]) /\ ~Grouped(ret.value, i)

\* The table before any pass: no row has a group.
WithoutAssignment(table) ==
    [id \in DOMAIN table |->
        [table[id] EXCEPT !.duplicate_group_id = 0, !.is_duplicate = "NULL"]]

\* What request p does when it runs alone on the unassigned table, its
\* query returning the rows in the order p got them.
AloneOutcome(p) ==
    DetectOutcome(WithoutAssignment(images), 1,
                  [k \in 1..Len(passes[p].fetched) |-> passes[p].fetched[k].id])

\* Two requests name different projects, or different users.
DisjointScopes(p, q) ==
    \/ /\ passes[p].project_id # "" /\ passes[q].project_id # ""
       /\ passes[p].project_id # passes[q].project_id
    \/ /\ passes[p].user_id # "" /\ passes[q].user_id # ""
       /\ passes[p].user_id # passes[q].user_id

\* Every other request that has started works on a scope disjoint from
\* that of request p.
ScopeToItself(p) ==
    \A q \in PassIds \ {p} : passes[q].pc = "idle" \/ DisjointScopes(p, q)

\* The ids of the rows request p fetched.
FetchedIds(p) == {passes[p].fetched[k].id : k \in 1..Len(passes[p].fetched)}

\* C15: a finished request, all other started requests being on disjoint
\* scopes, has returned the groups, and left on the rows it works on the
\* flags and the grouping, that it produces when it runs alone.
C15_DisjointPassesIndependent ==
    \A p \in PassIds :
        (passes[p].pc = "done" /\ ScopeToItself(p)) =>
            /\ WithoutGroupIds(passes[p].duplicate_groups)
                  = WithoutGroupIds(AloneOutcome(p).duplicate_groups)
            /\ \A id1, id2 \in FetchedIds(p) :
                  /\ images[id1].is_duplicate = AloneOutcome(p).images[id1].is_duplicate
                  /\ (images[id1].duplicate_group_id = 0)
                        <=> (AloneOutcome(p).images[id1].duplicate_group_id = 0)
                  /\ (images[id1].duplicate_group_id = images[id2].duplicate_group_id)
                        <=> (AloneOutcome(p).images[id1].duplicate_group_id
                                = AloneOutcome(p).images[id2].duplicate_group_id)

\* Record i comes before record j in capture-time order: by capture time,
\* records of equal time in list order (the order of a stable sort).
BeforeByTime(data, i, j) ==
    \/ data[i].capture_time < data[j].capture_time
    \/ data[i].capture_time = data[j].capture_time /\ i < j

\* Records i and j both have a capture time and j is the next one after i
\* in capture-time order among the records that have one.
AdjacentByTime(data, i, j) ==
    /\ HasCaptureTime(data[i]) /\ HasCaptureTime(data[j])
    /\ BeforeByTime(data, i, j)
    /\ \A k \in 1..Len(data) :
          HasCaptureTime(data[k]) => ~(BeforeByTime(data, i, k) /\ BeforeByTime(data, k, j))

\* Index j follows index i immediately in one of the sequences.
AdjacentInSequence(sequences, i, j) ==
    \E s \in 1..Len(sequences) : \E k \in 1..(Len(sequences[s]) - 1) :
        sequences[s][k] = i /\ sequences[s][k + 1] = j

\* The time gap and the dhash distance of two records are within the burst
\* limits.
BurstLink(data, i, j, time_threshold_seconds) ==
    /\ data[j].capture_time - data[i].capture_time <= time_threshold_seconds
    /\ calculate_similarity(data[j].dhash, data[i].dhash, "dhash") <= BurstVisualThreshold

\* C21: two records adjacent in capture-time order among the records with a
\* capture time, within the time window and within 30 bits (dhash) of each
\* other, are adjacent members of one returned sequence.
C21_BurstMaximal ==
    AfterBurst =>
        \A i, j \in 1..Len(image_data) :
            (AdjacentByTime(image_data, i, j)
                /\ BurstLink(image_data, i, j, ret.time_threshold_seconds))
                => AdjacentInSequence(ret.value, i, j)

\* Records i and j, adjacent in capture-time order, are within the time
\* window and farther than 30 bits (dhash) from each other.
VisualBreak(data, i, j, time_threshold_seconds) ==
    /\ AdjacentByTime(data, i, j)
    /\ data[j].capture_time - data[i].capture_time <= time_threshold_seconds
    /\ calculate_similarity(data[j].dhash, data[i].dhash, "dhash") > BurstVisualThreshold

\* C22: when the walk meets a record j within the time window of its
\* predecessor i and farther than 30 bits from it, the sequence ending with
\* i is closed (returned only if it has two members or more, that is if i
\* was linked to its own predecessor) and j starts a new one (returned if
\* the record after j is linked to j); two records within the window and
\* farther than 30 bits apart give no sequence.
C22_BreakOnVisualMismatch ==
    /\ (AfterBurst /\ ret.raised = "") =>
          \A i, j \in 1..Len(image_data) :
              VisualBreak(image_data, i, j, ret.time_threshold_seconds) =>
                  /\ ~SameGroup(ret.value, i, j)
                  /\ \A s \in 1..Len(ret.value) :
                        /\ i \in Range(ret.value[s]) => ret.value[s][Len(ret.value[s])] = i
                        /\ j \in Range(ret.value[s]) => ret.value[s][1] = j
                  /\ Grouped(ret.value, i) <=>
                        \E h \in 1..Len(image_data) :
                            /\ AdjacentByTime(image_data, h, i)
                            /\ BurstLink(image_data, h, i, ret.time_threshold_seconds)
                  /\ Grouped(ret.value, j) <=>
                        \E k \in 1..Len(image_data) :
                            /\ AdjacentByTime(image_data, j, k)
                            /\ BurstLink(image_data, j, k, ret.time_threshold_seconds)
    /\ (AfterBurst /\ Len(image_data) = 2
            /\ \E i, j \in 1..2 : VisualBreak(image_data, i, j, ret.time_threshold_seconds)) =>
          (ret.raised = "" /\ ret.value = <<>>)

\* C22 witness: a record that broke a sequence on the visual test is the
\* first member of a returned sequence.
C22_Witness ==
    /\ AfterBurst /\ ret.raised = ""
    /\ \E i, j \in 1..Len(image_data) :
          /\ VisualBreak(image_data, i, j, ret.time_threshold_seconds)
          /\ \E s \in 1..Len(ret.value) : ret.value[s][1] = j

\* The places (list, position) where index a stands in a list of lists.
Occurrences(lists, a) ==
    {gk \in UNION {{<<g, k>> : k \in 1..Len(lists[g])} : g \in 1..Len(lists)} :
        lists[gk[1]][gk[2]] = a}

\* C23: an index of the input list stands at most once in the groups that
\* find_duplicate_groups returns and at most once in the sequences that
\* find_burst_sequences returns, and what stands there is an index of the
\* list.
C23_DisjointOutput ==
    (AfterFind \/ AfterBurst) =>
        /\ \A a \in 1..Len(image_data) : Cardinality(Occurrences(ret.value, a)) <= 1
        /\ \A g \in 1..Len(ret.value) : Range(ret.value[g]) \subseteq 1..Len(image_data)

\* C23 witness: a returned group whose second and third members are within
\* the threshold of each other (the second, as an anchor, would take the
\* third).
C23_Witness ==
    /\ AfterFind /\ ret.raised = ""
    /\ \E g \in 1..Len(ret.value) :
          /\ Len(ret.value[g]) >= 3
          /\ WithinThreshold(image_data[ret.value[g][2]], image_data[ret.value[g][3]],
                             similarity_threshold)

\* calculate_similarity cannot compute one of the two distances of a pair of
\* records and returns 999 for it.
ComparisonFails(x, y) ==
    SimilarityRaises(x.dhash, y.dhash) # "" \/ SimilarityRaises(x.phash, y.phash) # ""

\* C24: two records with a failed hash comparison are never in one group of
\* find_duplicate_groups, whatever the detector's similarity_threshold, and
\* a record whose dhash comparison with the record before it fails is never
\* appended to that record's burst sequence.
C24_FailedComparisonNeverJoins ==
    /\ (AfterFind /\ ret.raised = "") =>
          \A a, b \in 1..Len(image_data) :
              (a # b /\ ComparisonFails(image_data[a], image_data[b]))
                  => ~SameGroup(ret.value, a, b)
    /\ (AfterBurst /\ ret.raised = "") =>
          \A a, b \in 1..Len(image_data) :
              SimilarityRaises(image_data[a].dhash, image_data[b].dhash) # ""
                  => ~AdjacentInSequence(ret.value, a, b)

\* get_images with hide_duplicates: the rows whose is_duplicate is NULL or
\* false.
VisibleIds(table) == {id \in DOMAIN table : table[id].is_duplicate # "true"}

\* C25: after a completed pass every row with is_duplicate true shares its
\* duplicate_group_id with a row that has is_duplicate false.
C25_SuppressedHasRepresentative ==
    AfterDetect =>
        \A id \in DOMAIN images \ VisibleIds(images) :
            \E id2 \in VisibleIds(images) :
                /\ images[id2].is_duplicate = "false"
                /\ images[id2].duplicate_group_id = images[id].duplicate_group_id

\* Request p has run its query.
Started(p) == passes[p].pc # "idle"

\* C26: a request with a project_id fetches rows of that project only;
\* requests for two different users have no fetched row in common (the
\* images table has no user column: whoever owns a row, it belongs to one
\* user at most); a request's response groups hold rows it fetched; and a
\* row that carries a group was fetched by some request.
C26_ScopeConfinement ==
    /\ \A p \in PassIds :
          (Started(p) /\ passes[p].project_id # "") =>
              \A k \in 1..Len(passes[p].fetched) :
                  passes[p].fetched[k].project_id = passes[p].project_id
    /\ \A p, q \in PassIds :
          (Started(p) /\ Started(q) /\ passes[p].user_id # "" /\ passes[q].user_id # ""
              /\ passes[p].user_id # passes[q].user_id) =>
              FetchedIds(p) \cap FetchedIds(q) = {}
    /\ \A p \in PassIds : \A g \in 1..Len(passes[p].duplicate_groups) :
          Range(passes[p].duplicate_groups[g].image_ids) \subseteq FetchedIds(p)
    /\ \A id \in DOMAIN images :
          images[id].duplicate_group_id # 0 => \E p \in PassIds : id \in FetchedIds(p)

\* Every request has returned, and all were made with the same parameters.
AllDoneOnOneScope ==
    /\ \A p \in PassIds : passes[p].pc = "done"
    /\ \A p, q \in PassIds :
          /\ passes[p].project_id = passes[q].project_id
          /\ passes[p].user_id = passes[q].user_id

\* The fetched rows of request p that have the hash key of row id.
SameKeyIds(p, id) == {id2 \in FetchedIds(p) : HashKey(images[id2]) = HashKey(images[id])}

\* C27: when requests over one scope have all finished, however their
\* updates interleaved, the rows that share a (phash, dhash) key carry one
\* duplicate_group_id and exactly one of them has is_duplicate false.
C27_OverlappingPassesConverge ==
    AllDoneOnOneScope =>
        \A p \in PassIds : \A id \in FetchedIds(p) :
            Cardinality(SameKeyIds(p, id)) >= 2 =>
                /\ \A id2 \in SameKeyIds(p, id) :
                      images[id2].duplicate_group_id = images[id].duplicate_group_id
                /\ Cardinality({id2 \in SameKeyIds(p, id) :
                                    images[id2].is_duplicate = "false"}) = 1

\* The member of a group that the sort of detect_duplicates places first,
\* the group given by the indices of its members in image_data.
FirstBySort(data, group_indices) ==
    SortedImages([k \in 1..Len(group_indices) |-> data[group_indices[k]]], 1, <<>>)[1].id

\* C28: on every non-empty group select_best_from_group returns the member
\* that the sort of detect_duplicates (score descending, missing as 0, file
\* name ascending) places first.
C28_SelectorsAgree ==
    (AfterSelect /\ ret.group_indices # <<>>) =>
        /\ ret.raised = ""
        /\ ret.value = FirstBySort(image_data, ret.group_indices)

\* start_batch_enhancement answers in this step.
StartAnswered ==
    /\ client.pc # "done"
    /\ client'.pc = "done"
    /\ client'.op = "start_batch_enhancement"

\* The metadata enqueue_batch_job gives the job of these image ids.
QueuedMeta(image_ids) == [status |-> "queued", current |-> 0, total |-> Len(image_ids)]

\* The request comes with no image id or with more than 100.
OutOfRange(image_ids) == Len(image_ids) = 0 \/ Len(image_ids) > MaxBatchImages

\* A request with 1..100 image ids adds one job, in status "queued"; when
\* the handler returns the job's metadata is status "queued", current = 0
\* and total = the number of image ids.
AcceptedEnqueuesOne ==
    /\ (client.pc = "idle" /\ client'.pc = "save_meta") =>
           /\ ~OutOfRange(client'.arg)
           /\ jobs' = Append(jobs, NewJob(client'.arg))
           /\ NewJob(client'.arg).status = "queued"
    /\ (StartAnswered /\ ~OutOfRange(client'.arg)) =>
           /\ client.pc = "save_meta" /\ client.arg = client'.arg
           /\ client'.status_code = 200
           /\ client'.body = [job_id |-> client.job_id, status |-> "queued",
                              total_images |-> Len(client'.arg)]
           /\ Len(jobs') = Len(jobs)
           /\ jobs'[client.job_id].image_ids = client'.arg
           /\ jobs'[client.job_id].meta = QueuedMeta(client'.arg)

\* C29 (as stated): a request with no image id or with more than 100 is
\* answered with status 400 and enqueues no job; a request with 1..100
\* image ids enqueues exactly one job, queued with current = 0 and total =
\* the number of image ids.
C29_BatchRequestValidation ==
    [][/\ (StartAnswered /\ OutOfRange(client'.arg)) =>
              (client'.status_code = 400 /\ jobs' = jobs)
       /\ AcceptedEnqueuesOne]_vars

\* C29, what the code does: the out-of-range request is answered 422 by the
\* validation of the request body, with no job enqueued; the rest as stated.
C29_RejectedByValidation ==
    [][/\ (StartAnswered /\ OutOfRange(client'.arg)) =>
              (client'.status_code = 422 /\ jobs' = jobs)
       /\ AcceptedEnqueuesOne]_vars

\* download_batch_zip or save_batch_to_library answers in this step.
Releases ==
    /\ client.pc # "done"
    /\ client'.pc = "done"
    /\ client'.op \in {"download_batch_zip", "save_batch_to_library"}

\* The ids of the images of a job whose result has status "success".
SuccessIds(job_id) ==
    {r.image_id : r \in {x \in Range(jobs[job_id].result.results) : x.status = "success"}}

\* The library entries this step adds.
StoredNow == SubSeq(enhanced_images', Len(enhanced_images) + 1, Len(enhanced_images'))

\* C30: whatever the order of the worker's steps, the expiry of jobs and
\* the requests, download_batch_zip and save_batch_to_library answer with
\* images, or store images, only for a job that is "finished" and only
\* images whose result has status "success"; for a job that is queued,
\* started or failed they answer with an error and store nothing; nothing
\* else adds to the library.
C30_ReleasedOnlyWhenFinished ==
    [][/\ Releases =>
              LET job_id == client'.arg
              IN  /\ client'.status_code = 200 =>
                        /\ job_id \in DOMAIN jobs
                        /\ jobs[job_id].status = "finished"
                        /\ client'.op = "download_batch_zip" =>
                              /\ client'.body # <<>>
                              /\ \A k \in 1..Len(client'.body) :
                                    /\ client'.body[k].status = "success"
                                    /\ client'.body[k] \in Range(jobs[job_id].result.results)
                        /\ client'.op = "save_batch_to_library" =>
                              \A k \in 1..Len(StoredNow) :
                                  /\ StoredNow[k].description = job_id
                                  /\ StoredNow[k].original_image_id \in SuccessIds(job_id)
                  /\ client'.status_code # 200 =>
                        /\ client'.status_code \in {400, 404}
                        /\ client'.body = <<>>
                        /\ enhanced_images' = enhanced_images
                  /\ (job_id \in DOMAIN jobs
                        /\ jobs[job_id].status \in {"queued", "started", "failed"}) =>
                        /\ client'.status_code = 400
                        /\ enhanced_images' = enhanced_images
       /\ enhanced_images' # enhanced_images =>
              /\ Releases
              /\ client'.op = "save_batch_to_library"
              /\ client'.status_code = 200
              /\ Len(enhanced_images') > Len(enhanced_images)
              /\ SubSeq(enhanced_images', 1, Len(enhanced_images)) = enhanced_images]_vars

\* C30 witness: a finished job of one enhanced and one failed image has
\* been downloaded and saved: the library holds the enhanced image and the
\* download answered with it alone.
C30_Witness ==
    /\ client.pc = "done"
    /\ client.op = "download_batch_zip"
    /\ client.status_code = 200
    /\ jobs[client.arg].image_ids = <<"i2", "i1">>
    /\ jobs[client.arg].status = "finished"
    /\ client.body = <<enhance_single_image("i1")>>
    /\ enhanced_images = <<LibraryEntry(enhance_single_image("i1"), client.arg)>>

====
